---- MODULE Spec2Model ----
(***************************************************************************)
(* FileXTransfer: backend.py (tree indexing, comparison, single-file copy, *)
(* batch copy) and main.py (CopyWorker thread and the BackupApp handlers). *)
(*                                                                         *)
(* A relative path is a sequence of one-character strings, so that         *)
(* _normalize_rel, sorted() and os.path.dirname act on characters.         *)
(* A directory tree is a function from the file keys present in it to      *)
(* their content (a sequence of bytes) plus the set of its subdirectories. *)
(* A file key is the location of a file below the tree's root, written     *)
(* with "/" between components; the platform decides which path strings    *)
(* the operating system lists for it and which strings open() resolves     *)
(* to it.                                                                  *)
(***************************************************************************)
EXTENDS Integers, Sequences, FiniteSets, TLC

VARIABLES
    platform,       \* os.name: "posix" or "nt"
    fs,             \* folder -> (file key -> content)
    dirs,           \* folder -> set of subdirectory keys
    origin,         \* BackupApp.origin
    dest_b,         \* BackupApp.dest_b
    dest_c,         \* BackupApp.dest_c
    use_dest_c,     \* BackupApp.use_dest_c
    missing_files,  \* BackupApp.missing_files
    log_buffer,     \* BackupApp.log_buffer
    ui,             \* enabled flags of the widgets
    worker,         \* BackupApp.worker, the CopyWorker and its position in run()
    queue,          \* signals emitted by the worker, not yet delivered to the GUI thread
    last,           \* the operation that produced this state and what it returned
    hist,           \* what has been observed of the current analysis and batch
    budget          \* remaining user events, external changes and library calls

vars == <<platform, fs, dirs, origin, dest_b, dest_c, use_dest_c, missing_files,
          log_buffer, ui, worker, queue, last, hist, budget>>

----------------------------------------------------------------------------
\* Bounds of the model.

\* User events (clicks and dialog choices) in one run.
MaxClicks == 6
\* User events in a run whose scheduling is checked.
MaxLiveClicks == 4
\* Changes made to the trees by other programs in one run.
MaxEnvOps == 1
\* Largest chunk_size passed to copy_file by a direct call (the smallest is -1).
MaxChunk == 4

\* backend.DEFAULT_CHUNK_SIZE
DEFAULT_CHUNK_SIZE == 67108864

----------------------------------------------------------------------------
\* Characters, path strings and Python's string order.

\* ord(c) for the characters the model's paths are made of.
Ord(c) ==
    CASE c = "/" -> 47
      [] c = "0" -> 48
      [] c = "\\" -> 92
      [] c = "a" -> 97
      [] c = "b" -> 98
      [] c = "f" -> 102

\* Python's s < t on strings: the first differing character decides, a proper
\* prefix is smaller.
StrLess(s, t) ==
    \/ \E i \in 1..Len(s) :
          /\ i <= Len(t)
          /\ \A j \in 1..(i - 1) : s[j] = t[j]
          /\ Ord(s[i]) < Ord(t[i])
    \/ /\ Len(s) < Len(t)
       /\ \A j \in 1..Len(s) : s[j] = t[j]

\* The least element of a non-empty set of strings.
StrMin(S) == CHOOSE s \in S : \A t \in S \ {s} : StrLess(s, t)

RECURSIVE sorted(_)
\* sorted(S) on a set of strings: the list of its elements in increasing order.
sorted(S) ==
    IF S = {} THEN <<>>
    ELSE LET m == StrMin(S) IN <<m>> \o sorted(S \ {m})

\* str.replace("\\", "/")
ReplaceBackslash(p) == [i \in 1..Len(p) |-> IF p[i] = "\\" THEN "/" ELSE p[i]]

\* The missing conversion: the path is returned as it is.
normalize_rel_identity(path) == path

\* backend._normalize_rel
normalize_rel(path) == ReplaceBackslash(path)

----------------------------------------------------------------------------
\* The file system.

Folders == {"X", "Y", "Z"}

\* Locations of files below a root.
K_a0 == <<"a", "0">>
K_ab0 == <<"a", "/", "b", "/", "0">>
\* filextransfer_log_<timestamp>.txt in the root; the model has one timestamp.
K_log == <<"f">>
FileKeys == {K_a0, K_ab0, K_log}

\* Content written to the run log, as bytes (its lines are kept in hist).
LogBytes == <<9>>

\* The subdirectories that lead to a key: its prefixes that end before a "/".
Ancestors(key) == {SubSeq(key, 1, i - 1) : i \in {j \in 1..Len(key) : key[j] = "/"}}

\* The relative path os.walk and os.path.relpath give for a file: components
\* joined by os.sep.
OsRelpath(key) ==
    IF platform = "nt"
    THEN [i \in 1..Len(key) |-> IF key[i] = "/" THEN "\\" ELSE key[i]]
    ELSE key

\* The location a relative path string denotes when the operating system
\* resolves it below a root: "\\" separates components on nt only.
Resolve(path) == IF platform = "nt" THEN ReplaceBackslash(path) ELSE path

\* os.path.exists / a successful open for reading of root/path.
FileExists(tree, path) == Resolve(path) \in DOMAIN tree

Put(tree, key, content) ==
    [k \in (DOMAIN tree) \cup {key} |-> IF k = key THEN content ELSE tree[k]]

Remove(tree, key) == [k \in (DOMAIN tree) \ {key} |-> tree[k]]

Max(S) == CHOOSE x \in S : \A y \in S : y <= x

Min2(a, b) == IF a < b THEN a ELSE b

\* os.path.dirname of root/path, relative to the root: what precedes the last
\* separator; <<>> is the root itself.
Dirname(path) ==
    LET r == Resolve(path)
        seps == {j \in 1..Len(r) : r[j] = "/"}
    IN IF seps = {} THEN <<>> ELSE SubSeq(r, 1, Max(seps) - 1)

----------------------------------------------------------------------------
\* backend.py

\* What can go wrong in one copy_file call besides a missing source: the
\* operating system refuses one of its steps.
Faults == {"none", "src_open", "mkdir", "dst_open", "write", "utime"}

\* backend.list_files_recursive: the normalized relative paths of all files.
list_files_recursive(tree) == {normalize_rel(OsRelpath(k)) : k \in DOMAIN tree}

\* backend.compare: paths present in origin and missing in dest.
compare(originTree, destTree) ==
    list_files_recursive(originTree) \ list_files_recursive(destTree)

\* The mkdir bug: os.mkdir in place of os.makedirs creates the parent only.
ensure_parent_dir_mkdir(dirset, path) ==
    LET parent == Dirname(path)
    IN IF parent # <<>> /\ parent \notin dirset
       THEN dirset \cup {parent}
       ELSE dirset

\* backend.ensure_parent_dir on root/path: the subdirectories afterwards.
\* makedirs creates the parent and every missing ancestor.
ensure_parent_dir(dirset, path) ==
    LET parent == Dirname(path)
    IN IF parent # <<>> /\ parent \notin dirset
       THEN dirset \cup Ancestors(Resolve(path))
       ELSE dirset

\* Whether ensure_parent_dir has to call os.makedirs.
NeedsMakedirs(dirset, path) == Dirname(path) # <<>> /\ Dirname(path) \notin dirset

\* r.read(chunk_size) at offset pos: at most chunk_size bytes, everything that
\* is left when chunk_size is negative.
Read(data, pos, chunk_size) ==
    IF chunk_size < 0
    THEN SubSeq(data, pos + 1, Len(data))
    ELSE SubSeq(data, pos + 1, Min2(pos + chunk_size, Len(data)))

RECURSIVE ChunkedLoop(_, _, _, _)
\* The while loop of copy_file: the list of buffers written, in order.
ChunkedLoop(data, pos, chunk_size, written) ==
    LET buf == Read(data, pos, chunk_size)
    IN IF buf = <<>>
       THEN written
       ELSE ChunkedLoop(data, pos + Len(buf), chunk_size, Append(written, buf))

RECURSIVE Concat(_)
Concat(bufs) == IF bufs = <<>> THEN <<>> ELSE Head(bufs) \o Concat(Tail(bufs))

\* backend.copy_file(src, dst, chunked, chunk_size) on the trees F and the
\* subdirectories D, with the operating system failing as `fault` says; src
\* and dst are [root, rel]: a folder and a path below it.  Returns whether it
\* returned normally (ok) and the trees and subdirectories it leaves.
\*   - ensure_parent_dir runs first, so the directories exist even when the
\*     copy then fails;
\*   - open(dst, "wb") needs the parent directory of dst;
\*   - chunked: open(src, "rb") before open(dst, "wb"); opening dst truncates
\*     it, also when dst is the very file being read; a failing write leaves
\*     what was written before it; the stat/utime step is inside try/except;
\*   - not chunked: shutil.copy2 raises SameFileError when src and dst are the
\*     same file, copies the content, then copystat raises what os.stat or
\*     os.utime raise.
copy_file(F, D, src, dst, chunked, chunk_size, fault) ==
    LET skey == Resolve(src.rel)
        dkey == Resolve(dst.rel)
        mkdirFails == NeedsMakedirs(D[dst.root], dst.rel) /\ fault = "mkdir"
        D1 == IF mkdirFails THEN D
              ELSE [D EXCEPT ![dst.root] = ensure_parent_dir(@, dst.rel)]
        same == src.root = dst.root /\ skey = dkey
        srcOk == FileExists(F[src.root], src.rel)
        parentOk == Dirname(dst.rel) = <<>> \/ Dirname(dst.rel) \in D1[dst.root]
        failed(F2) == [ok |-> FALSE, fs |-> F2, dirs |-> D1]
        done(F2) == [ok |-> TRUE, fs |-> F2, dirs |-> D1]
    IN
    IF mkdirFails THEN failed(F)
    ELSE IF ~chunked /\ srcOk /\ same THEN failed(F)
    ELSE IF ~srcOk \/ fault = "src_open" THEN failed(F)
    ELSE IF fault = "dst_open" \/ ~parentOk THEN failed(F)
    ELSE
      LET opened == [F EXCEPT ![dst.root] = Put(@, dkey, <<>>)]
          data == opened[src.root][skey]
          bufs == IF chunked
                  THEN ChunkedLoop(data, 0, chunk_size, <<>>)
                  ELSE IF data = <<>> THEN <<>> ELSE <<data>>
      IN IF fault = "write" /\ bufs # <<>>
         THEN failed([opened EXCEPT ![dst.root] =
                         Put(@, dkey, Concat(SubSeq(bufs, 1, Len(bufs) - 1)))])
         ELSE LET copied == [opened EXCEPT ![dst.root] = Put(@, dkey, Concat(bufs))]
              IN IF ~chunked /\ fault = "utime" THEN failed(copied)
                 ELSE done(copied)

\* os.path.join(root, rel)
Join(root, rel) == [root |-> root, rel |-> rel]

\* The paths a direct caller passes to copy_missing_files: each file location
\* written with either separator.
RelInputs == {K_a0, K_ab0, <<"a", "\\", "b", "\\", "0">>}

\* The counting bug: the counter goes up whatever the outcome.
Tally_always(count, hit) == count + 1

\* success += 1 / errors += 1 in the branch that was taken.
Tally(count, hit) == IF hit THEN count + 1 ELSE count

RECURSIVE BatchLoop(_, _, _, _, _, _)
\* The for loop of copy_missing_files over the remaining paths `todo`;
\* acc holds the trees, success, errors and the calls of copy_file made so far.
BatchLoop(todo, originF, destF, chunked, faultOf, acc) ==
    IF todo = <<>> THEN acc
    ELSE
      LET rel_path == Head(todo)
          rel_norm == normalize_rel(rel_path)
          src == Join(originF, rel_norm)
          dst == Join(destF, rel_norm)
          r == copy_file(acc.fs, acc.dirs, src, dst, chunked, DEFAULT_CHUNK_SIZE,
                         faultOf[rel_path])
          call == [input |-> rel_path, path |-> rel_norm, ok |-> r.ok,
                   present |-> FileExists(acc.fs[originF], rel_norm)]
      IN BatchLoop(Tail(todo), originF, destF, chunked, faultOf,
                   [fs |-> r.fs, dirs |-> r.dirs,
                    success |-> Tally(acc.success, r.ok),
                    errors |-> IF r.ok THEN acc.errors
                               ELSE Append(acc.errors, rel_norm),
                    calls |-> Append(acc.calls, call)])

\* backend.copy_missing_files(missing, origin, dest, chunked): the loop over
\* sorted(missing), starting from success = 0 and errors = [].
copy_missing_files(F, D, missing, originF, destF, chunked, faultOf) ==
    BatchLoop(sorted(missing), originF, destF, chunked, faultOf,
              [fs |-> F, dirs |-> D, success |-> 0, errors |-> <<>>, calls |-> <<>>])

----------------------------------------------------------------------------
\* main.py: the state after BackupApp.__init__.

NoWorker ==
    [state |-> "none", files |-> <<>>, origin |-> "", dest |-> "",
     chunked |-> TRUE, i |-> 0, success |-> 0, errors |-> 0]

NoHist ==
    [aOrigin |-> "", aDest |-> "", changed |-> FALSE,
     current |-> FALSE, calls |-> <<>>, progress |-> <<>>, finished |-> 0]

\* The trees the run starts from: X holds two files, Y one of them with other
\* content, Z is empty.
InitFs ==
    [f \in Folders |->
        CASE f = "X" -> (K_a0 :> <<1, 2, 3>>) @@ (K_ab0 :> <<4>>)
          [] f = "Y" -> (K_a0 :> <<>>)
          [] f = "Z" -> [k \in {} |-> <<>>]]

\* X has the directories of its files, Y an empty directory a, Z none.
InitDirs ==
    [f \in Folders |->
        CASE f = "X" -> Ancestors(K_ab0)
          [] f = "Y" -> {<<"a">>}
          [] f = "Z" -> {}]

\* A run is the GUI application, or a program that makes one direct call of a
\* backend function.
Init ==
    /\ platform \in {"posix", "nt"}
    /\ fs = InitFs
    /\ dirs = InitDirs
    /\ origin = ""
    /\ dest_b = ""
    /\ dest_c = ""
    /\ use_dest_c = FALSE
    /\ missing_files = <<>>
    /\ log_buffer = <<>>
    /\ ui = [controls |-> TRUE, btn_copy |-> FALSE]
    /\ worker = NoWorker
    /\ queue = <<>>
    /\ last = [op |-> "init"]
    /\ hist = NoHist
    /\ budget \in {[clicks |-> n, env |-> MaxEnvOps, lib |-> 0] :
                      n \in {MaxClicks, MaxLiveClicks}}
                  \cup {[clicks |-> 0, env |-> MaxEnvOps, lib |-> 1]}

\* What `last` holds after an operation whose result no property reads.
Quiet == [op |-> "-"]

Click == /\ budget.clicks > 0
         /\ budget' = [budget EXCEPT !.clicks = @ - 1]

fsVars == <<platform, fs, dirs>>
appVars == <<origin, dest_b, dest_c, use_dest_c, missing_files, log_buffer, ui>>

----------------------------------------------------------------------------
\* main.py: the handlers of BackupApp.  A button acts only while enabled.

\* BackupApp.select_origin; the dialog returns a folder or "" (cancelled).
select_origin ==
    /\ ui.controls
    /\ \E folder \in Folders \cup {""} :
          IF folder # ""
          THEN /\ Click
               /\ origin' = folder
               /\ last' = Quiet
               /\ UNCHANGED <<fsVars, dest_b, dest_c, use_dest_c, missing_files,
                              log_buffer, ui, worker, queue, hist>>
          ELSE UNCHANGED vars

\* BackupApp.select_dest_b
select_dest_b ==
    /\ ui.controls
    /\ \E folder \in Folders \cup {""} :
          IF folder # ""
          THEN /\ Click
               /\ dest_b' = folder
               /\ last' = Quiet
               /\ UNCHANGED <<fsVars, origin, dest_c, use_dest_c, missing_files,
                              log_buffer, ui, worker, queue, hist>>
          ELSE UNCHANGED vars

\* BackupApp.select_dest_c
select_dest_c ==
    /\ ui.controls
    /\ \E folder \in Folders \cup {""} :
          IF folder # ""
          THEN /\ Click
               /\ dest_c' = folder
               /\ last' = Quiet
               /\ UNCHANGED <<fsVars, origin, dest_b, use_dest_c, missing_files,
                              log_buffer, ui, worker, queue, hist>>
          ELSE UNCHANGED vars

\* BackupApp.toggle_use_c: stateChanged delivers the checkbox's new state.
toggle_use_c ==
    /\ ui.controls
    /\ Click
    /\ use_dest_c' = ~use_dest_c
    /\ last' = Quiet
    /\ UNCHANGED <<fsVars, origin, dest_b, dest_c, missing_files, log_buffer, ui,
                   worker, queue, hist>>

\* The stale button bug: the copy button follows the other controls, whether
\* or not there is anything to copy.
toggle_ui_ignores_list(enabled, missing) ==
    [controls |-> enabled, btn_copy |-> enabled]

\* The disabling bug: the controls stay enabled whatever is asked.
toggle_ui_always_enabled(enabled, missing) ==
    [controls |-> TRUE, btn_copy |-> missing # <<>>]

\* BackupApp.toggle_ui(enabled), given the missing_files it reads.
toggle_ui(enabled, missing) ==
    [controls |-> enabled, btn_copy |-> IF missing # <<>> THEN enabled ELSE FALSE]

\* BackupApp.analyze
analyze ==
    /\ ui.controls
    /\ IF origin = "" \/ dest_b = ""
       THEN UNCHANGED vars
       ELSE LET missing == compare(fs[origin], fs[dest_b])
                listed == sorted(missing)
            IN /\ Click
               /\ log_buffer' = <<>>
               /\ missing_files' = listed
               /\ ui' = [ui EXCEPT !.btn_copy = (Len(listed) # 0)]
               /\ hist' = [hist EXCEPT !.aOrigin = origin, !.aDest = dest_b,
                                       !.changed = FALSE, !.current = FALSE]
               /\ last' = [op |-> "analyze", result |-> missing]
               /\ UNCHANGED <<fsVars, origin, dest_b, dest_c, use_dest_c, worker,
                              queue>>
\* BackupApp.start_copy
start_copy ==
    /\ ui.btn_copy
    /\ LET target == IF use_dest_c THEN dest_c ELSE dest_b
       IN IF missing_files = <<>> \/ target = ""
          THEN UNCHANGED vars
          ELSE /\ Click
               /\ ui' = toggle_ui(FALSE, missing_files)
               /\ worker' = [state |-> "running", files |-> missing_files,
                             origin |-> origin, dest |-> target, chunked |-> TRUE,
                             i |-> 0, success |-> 0, errors |-> 0]
               /\ hist' = [hist EXCEPT !.current = TRUE, !.calls = <<>>,
                                       !.progress = <<>>, !.finished = 0]
               /\ last' = Quiet
               /\ UNCHANGED <<fsVars, origin, dest_b, dest_c, use_dest_c,
                              missing_files, log_buffer, queue>>

\* The indexing bug: enumerate without start, counting from 0.
Enumerate_from_zero(files, start) == [k \in 1..Len(files) |-> <<k - 1, files[k]>>]

\* The range bug: the last element is left out.
Enumerate_short(files, start) ==
    [k \in 1..(Len(files) - 1) |-> <<k - 1 + start, files[k]>>]

\* enumerate(files, start): the list of (index, element) pairs.
Enumerate(files, start) == [k \in 1..Len(files) |-> <<k - 1 + start, files[k]>>]

\* The message bug: the except branch reports OK too.
Outcome_always_ok(ok, rel_norm) == [kind |-> "OK", path |-> rel_norm]

\* msg = f"OK: {rel_norm}" / f"ERROR: {rel_norm} ({e})"
Outcome(ok, rel_norm) == [kind |-> IF ok THEN "OK" ELSE "ERROR", path |-> rel_norm]

\* The logging bug: failures get no line in the log.
Emitted_no_error_line(i, total, msg) ==
    IF msg.kind = "ERROR"
    THEN <<[sig |-> "progress", current |-> i, total |-> total, msg |-> msg]>>
    ELSE <<[sig |-> "line_log", msg |-> msg],
           [sig |-> "progress", current |-> i, total |-> total, msg |-> msg]>>

\* self.line_log.emit(msg); self.progress.emit(i, total, msg): the signals one
\* pass of the loop puts in the queue.
Emitted(i, total, msg) ==
    <<[sig |-> "line_log", msg |-> msg],
      [sig |-> "progress", current |-> i, total |-> total, msg |-> msg]>>

\* CopyWorker.run: one pass of the for loop; worker.i passes are done.
run_iteration ==
    /\ worker.state = "running"
    /\ worker.i < Len(Enumerate(worker.files, 1))
    /\ \E fault \in Faults :
          LET pair == Enumerate(worker.files, 1)[worker.i + 1]
              i == pair[1]
              total == Len(worker.files)
              rel_path == pair[2]
              rel_norm == ReplaceBackslash(rel_path)
              src == Join(worker.origin, rel_norm)
              dst == Join(worker.dest, rel_norm)
              r == copy_file(fs, dirs, src, dst, worker.chunked,
                             DEFAULT_CHUNK_SIZE, fault)
              msg == Outcome(r.ok, rel_norm)
          IN /\ fs' = r.fs
             /\ dirs' = r.dirs
             /\ worker' = [worker EXCEPT
                              !.i = @ + 1,
                              !.success = Tally(@, r.ok),
                              !.errors = Tally(@, ~r.ok)]
             /\ queue' = queue \o Emitted(i, total, msg)
             /\ hist' = [hist EXCEPT
                            !.calls = Append(@, [input |-> rel_path, path |-> rel_norm,
                                                 ok |-> r.ok, dest |-> dst.root,
                                                 present |-> FileExists(fs[src.root], rel_norm),
                                                 successBefore |-> worker.success,
                                                 errorsBefore |-> worker.errors,
                                                 successAfter |-> worker'.success,
                                                 errorsAfter |-> worker'.errors]),
                            !.progress = Append(@, [current |-> i, total |-> total,
                                                    msg |-> msg])]
             /\ last' = Quiet
             /\ UNCHANGED <<platform, appVars, budget>>

\* The indentation bug: finished is emitted inside the loop, after each pass.
run_finish_in_loop ==
    /\ worker.state = "running"
    /\ worker.i > hist.finished
    /\ queue' = Append(queue, [sig |-> "finished", success_count |-> worker.success,
                               error_count |-> worker.errors,
                               target_dest |-> worker.dest])
    /\ worker' = [worker EXCEPT
                     !.state = IF worker.i = Len(worker.files) THEN "done" ELSE @]
    /\ hist' = [hist EXCEPT !.finished = @ + 1]
    /\ last' = Quiet
    /\ UNCHANGED <<fsVars, appVars, budget>>

\* CopyWorker.run: after the loop, the finished signal; the thread ends.
run_finish ==
    /\ worker.state = "running"
    /\ worker.i = Len(Enumerate(worker.files, 1))
    /\ queue' = Append(queue, [sig |-> "finished", success_count |-> worker.success,
                               error_count |-> worker.errors,
                               target_dest |-> worker.dest])
    /\ worker' = [worker EXCEPT !.state = "done"]
    /\ hist' = [hist EXCEPT !.finished = @ + 1]
    /\ last' = Quiet
    /\ UNCHANGED <<fsVars, appVars, budget>>

\* The GUI thread delivers the worker's signals in the order of emission.

\* BackupApp.on_line_log
on_line_log ==
    /\ queue # <<>>
    /\ Head(queue).sig = "line_log"
    /\ log_buffer' = Append(log_buffer, Head(queue).msg)
    /\ queue' = Tail(queue)
    /\ last' = Quiet
    /\ UNCHANGED <<fsVars, origin, dest_b, dest_c, use_dest_c, missing_files, ui,
                   worker, hist, budget>>

\* BackupApp.on_progress: sets the progress bar only.
on_progress ==
    /\ queue # <<>>
    /\ Head(queue).sig = "progress"
    /\ queue' = Tail(queue)
    /\ last' = Quiet
    /\ UNCHANGED <<fsVars, appVars, worker, hist, budget>>

\* BackupApp.on_finished: saves the run log into target_dest (a failure to
\* save is caught), empties missing_files and log_buffer, re-enables the UI.
on_finished ==
    /\ queue # <<>>
    /\ Head(queue).sig = "finished"
    /\ \E saved \in BOOLEAN :
          /\ fs' = IF saved
                   THEN [fs EXCEPT ![Head(queue).target_dest] = Put(@, K_log, LogBytes)]
                   ELSE fs
          /\ last' = [op |-> "on_finished", saved |-> saved,
                      lines |-> log_buffer, total |-> Len(missing_files),
                      success_count |-> Head(queue).success_count,
                      error_count |-> Head(queue).error_count]
    /\ missing_files' = <<>>
    /\ log_buffer' = <<>>
    /\ ui' = toggle_ui(TRUE, missing_files')
    /\ queue' = Tail(queue)
    /\ UNCHANGED <<platform, dirs, origin, dest_b, dest_c, use_dest_c, worker, hist,
                   budget>>

----------------------------------------------------------------------------
\* Other programs.

\* A file is deleted from one of the trees.
EnvDelete ==
    /\ budget.env > 0
    /\ budget.lib > 0 \/ missing_files # <<>> \/ worker.state = "running"
    /\ \E f \in Folders : \E k \in DOMAIN fs[f] :
          fs' = [fs EXCEPT ![f] = Remove(@, k)]
    /\ budget' = [budget EXCEPT !.env = @ - 1]
    /\ hist' = [hist EXCEPT !.changed = TRUE]
    /\ last' = Quiet
    /\ UNCHANGED <<platform, dirs, appVars, worker, queue>>

----------------------------------------------------------------------------
\* Direct calls of the backend functions.

LibCall == /\ budget.lib > 0
           /\ budget' = [budget EXCEPT !.lib = @ - 1]

\* The content of root/rel, <<-1>> when there is no such file.
ContentOf(F, p) == IF FileExists(F[p.root], p.rel) THEN F[p.root][Resolve(p.rel)] ELSE <<-1>>

\* backend.copy_file(src, dst, chunked, chunk_size)
CallCopyFile ==
    /\ LibCall
    /\ \E srcF \in Folders, dstF \in Folders, srcRel \in RelInputs,
          chunked \in BOOLEAN, chunk_size \in (-1)..MaxChunk, fault \in Faults :
          LET src == Join(srcF, srcRel)
              dst == Join(dstF, srcRel)
              r == copy_file(fs, dirs, src, dst, chunked, chunk_size, fault)
          IN /\ fs' = r.fs
             /\ dirs' = r.dirs
             /\ last' = [op |-> "copy_file", src |-> src, dst |-> dst,
                         chunked |-> chunked, chunk_size |-> chunk_size,
                         fault |-> fault, ok |-> r.ok,
                         before |-> ContentOf(fs, src),
                         dst_before |-> ContentOf(fs, dst),
                         dirs_before |-> dirs[dstF],
                         after |-> ContentOf(r.fs, dst)]
    /\ hist' = [hist EXCEPT !.changed = TRUE]
    /\ UNCHANGED <<platform, appVars, worker, queue>>

\* backend.copy_missing_files(missing_files, origin, dest, chunked)
CallCopyMissingFiles ==
    /\ LibCall
    /\ \E missing \in SUBSET RelInputs, originF \in Folders, destF \in Folders,
          chunked \in BOOLEAN :
       \E faultOf \in [missing -> Faults] :
          LET r == copy_missing_files(fs, dirs, missing, originF, destF, chunked, faultOf)
          IN /\ fs' = r.fs
             /\ dirs' = r.dirs
             /\ last' = [op |-> "copy_missing_files", missing |-> missing,
                         origin |-> originF, dest |-> destF, chunked |-> chunked,
                         faultOf |-> faultOf, success |-> r.success,
                         errors |-> r.errors, calls |-> r.calls]
    /\ hist' = [hist EXCEPT !.changed = TRUE]
    /\ UNCHANGED <<platform, appVars, worker, queue>>

\* backend.compare(origin, dest)
CallCompare ==
    /\ LibCall
    /\ \E originF \in Folders, destF \in Folders :
          last' = [op |-> "compare", origin |-> originF, dest |-> destF,
                   result |-> compare(fs[originF], fs[destF])]
    /\ UNCHANGED <<fsVars, appVars, worker, queue, hist>>

----------------------------------------------------------------------------
\* The steps of a run of the application.
AppNext ==
    \/ select_origin
    \/ select_dest_b
    \/ select_dest_c
    \/ toggle_use_c
    \/ analyze
    \/ start_copy
    \/ run_iteration
    \/ run_finish
    \/ on_line_log
    \/ on_progress
    \/ on_finished
    \/ EnvDelete

Next ==
    \/ AppNext
    \/ CallCopyFile
    \/ CallCopyMissingFiles
    \/ CallCompare

Spec == Init /\ [][Next]_vars

\* A short run of the application: enough user events to start one batch.
LiveInit ==
    /\ Init
    /\ budget = [clicks |-> MaxLiveClicks, env |-> MaxEnvOps, lib |-> 0]

\* The application with its scheduling: a started thread runs (each pass of
\* the loop and the final emit are taken), and the event loop delivers the
\* queued signals.
LiveSpec ==
    /\ LiveInit
    /\ [][AppNext]_vars
    /\ WF_vars(run_iteration)
    /\ WF_vars(run_finish)
    /\ WF_vars(on_line_log \/ on_progress \/ on_finished)

----------------------------------------------------------------------------
\* Properties.

\* The calls of copy_file in `calls` that raised, as the list of their paths.
RECURSIVE RaisedPaths(_)
RaisedPaths(calls) ==
    IF calls = <<>> THEN <<>>
    ELSE IF Head(calls).ok THEN RaisedPaths(Tail(calls))
         ELSE <<Head(calls).path>> \o RaisedPaths(Tail(calls))

\* C1: a batch over N paths calls copy_file once for each of them, whether or
\* not earlier calls raised, and ends with success + failures = N, the
\* failures being the calls that raised.  For copy_missing_files: one call per
\* element of the input set, errors lists the raising calls in order.  For
\* CopyWorker.run: the k-th call is for files[k], after i passes
\* success + errors = i, errors counts the raising calls, and the thread ends
\* only after pass N.
C1_EveryPathAttemptedOnce ==
    /\ last.op = "copy_missing_files" =>
          LET N == Cardinality(last.missing)
          IN /\ Len(last.calls) = N
             /\ {last.calls[k].input : k \in 1..N} = last.missing
             /\ last.success + Len(last.errors) = N
             /\ last.errors = RaisedPaths(last.calls)
    /\ worker.state # "none" =>
          /\ Len(hist.calls) = worker.i
          /\ \A k \in 1..worker.i : hist.calls[k].input = worker.files[k]
          /\ worker.success + worker.errors = worker.i
          /\ worker.errors = Len(RaisedPaths(hist.calls))
          /\ worker.state = "done" => worker.i = Len(worker.files)

\* A worker batch that has ended, in which a call raised and a later one
\* returned normally.
C1_Witness ==
    /\ worker.state = "done"
    /\ \E j, k \in 1..Len(hist.calls) :
          j < k /\ ~hist.calls[j].ok /\ hist.calls[k].ok

\* C2: the origin tree is read-only: a step of analyze leaves the tree of
\* the selected origin as it was, and a pass of the worker's loop leaves the
\* files of the tree the batch reads from as they were.
C2_OriginReadOnly ==
    [][ /\ last'.op = "analyze" => fs'[origin] = fs[origin]
        /\ (worker.state = "running" /\ worker'.i = worker.i + 1) =>
              fs'[worker.origin] = fs[worker.origin] ]_vars

\* The canonical (forward-slash) relative paths that have a file in a tree.
CanonicalPaths(tree) == {ReplaceBackslash(k) : k \in DOMAIN tree}

\* The batch that ran last was started from the latest analysis, has ended
\* with every copy successful, and no other program has changed the trees
\* since that analysis.
FullCopyDone ==
    /\ worker.state = "done"
    /\ hist.current
    /\ worker.errors = 0
    /\ ~hist.changed

C4_CompareIsPathDifference ==
    /\ last.op = "compare" =>
          last.result = CanonicalPaths(fs[last.origin]) \ CanonicalPaths(fs[last.dest])
    /\ last.op = "analyze" =>
          /\ last.result = CanonicalPaths(fs[origin]) \ CanonicalPaths(fs[dest_b])
          /\ {missing_files[k] : k \in 1..Len(missing_files)} = last.result
          /\ Len(missing_files) = Cardinality(last.result)

\* An analysis on nt that reports a path in a subdirectory as missing while a
\* file present on both sides with different content is not reported.
C4_Witness ==
    /\ last.op = "analyze"
    /\ platform = "nt"
    /\ K_ab0 \in last.result
    /\ K_a0 \in DOMAIN fs[origin] /\ K_a0 \in DOMAIN fs[dest_b]
    /\ fs[origin][K_a0] # fs[dest_b][K_a0]

\* C5: the worker emits one progress notification per processed file: after
\* i passes there are i of them, the k-th has current = k and total = N and
\* its message names the k-th file and tells whether its copy raised; a batch
\* that has ended has emitted N.
C5_ProgressPerFile ==
    worker.state # "none" =>
       LET N == Len(worker.files)
       IN /\ Len(hist.progress) = worker.i
          /\ \A k \in 1..Len(hist.progress) :
                /\ hist.progress[k].current = k
                /\ hist.progress[k].total = N
                /\ hist.progress[k].msg.path = ReplaceBackslash(worker.files[k])
                /\ (hist.progress[k].msg.kind = "OK") = hist.calls[k].ok
                /\ (hist.progress[k].msg.kind = "ERROR") = ~hist.calls[k].ok
          /\ worker.state = "done" => Len(hist.progress) = N
          /\ LET q == SelectSeq(queue, LAMBDA m : m.sig = "progress")
                 d == Len(hist.progress) - Len(q)
             IN /\ d >= 0
                /\ \A j \in 1..Len(q) :
                      /\ q[j].current = hist.progress[d + j].current
                      /\ q[j].total = hist.progress[d + j].total
                      /\ q[j].msg = hist.progress[d + j].msg

\* A batch of two files that has ended with one OK and one ERROR notification.
C5_Witness ==
    /\ worker.state = "done"
    /\ Len(hist.progress) = 2
    /\ \E j, k \in 1..2 : /\ hist.progress[j].msg.kind = "OK"
                          /\ hist.progress[k].msg.kind = "ERROR"

\* The completion signals waiting in the queue.
FinishedInQueue == SelectSeq(queue, LAMBDA m : m.sig = "finished")

\* At most one completion signal per batch, emitted when the thread ends and
\* after all N progress notifications, last in the queue, carrying the
\* counters (which sum to N) and the directory copied into.
C6_Safety ==
    /\ hist.finished <= 1
    /\ Len(FinishedInQueue) <= hist.finished
    /\ worker.state = "running" => hist.finished = 0
    /\ worker.state = "done" => hist.finished = 1
    /\ FinishedInQueue # <<>> =>
          LET m == queue[Len(queue)]
          IN /\ m.sig = "finished"
             /\ worker.state = "done"
             /\ Len(hist.progress) = Len(worker.files)
             /\ m.success_count + m.error_count = Len(worker.files)
             /\ m.success_count = worker.success
             /\ m.error_count = worker.errors
             /\ m.target_dest = worker.dest
             /\ \A k \in 1..Len(hist.calls) : hist.calls[k].dest = m.target_dest

\* C6: every started batch eventually emits the completion signal, exactly
\* once, after its last progress notification, with success + failures = N
\* and the directory the batch copied into.
C6_CompletionSignal ==
    /\ []C6_Safety
    /\ (worker.state = "running") ~> (worker.state = "done" /\ hist.finished = 1)

\* The completion signal of a batch of two files is in the queue.
C6_Witness ==
    /\ FinishedInQueue # <<>>
    /\ Len(worker.files) = 2
    /\ Len(hist.progress) = 2

\* A direct call copy_file(src, dst, ...) of an existing source onto another
\* file has returned without raising.
CopyReturned ==
    /\ last.op = "copy_file"
    /\ last.ok
    /\ ~(last.src.root = last.dst.root /\ Resolve(last.src.rel) = Resolve(last.dst.rel))

\* C7: for any source content and any chunk size, a copy_file call that
\* returns without raising, in either mode, leaves the destination content
\* equal to the source content.
C7_ContentPreserved == CopyReturned => last.after = last.before

\* The same for every chunk size other than 0 (negative sizes read the whole
\* file at once): this much holds.
C7_ContentPreservedNonZeroChunk ==
    (CopyReturned /\ (last.chunked => last.chunk_size # 0)) => last.after = last.before

\* C8: when the content copy succeeds and only the stat/utime step fails,
\* copy_file returns normally in both modes, and copy_missing_files counts
\* the file as a success.
C8_TimestampFailureSwallowed ==
    /\ (/\ last.op = "copy_file"
        /\ last.fault = "utime"
        /\ last.before # <<-1>>
        /\ ~(last.src.root = last.dst.root
             /\ Resolve(last.src.rel) = Resolve(last.dst.rel)))
       => last.ok
    /\ last.op = "copy_missing_files" =>
          \A k \in 1..Len(last.calls) :
             (/\ last.faultOf[last.calls[k].input] = "utime"
              /\ last.calls[k].present
              /\ last.origin # last.dest)
             => last.calls[k].ok

\* C9: a listed file that is no longer in the origin when its turn comes is
\* recorded as a failure for that path (one more error, an ERROR message
\* naming it), and the batch goes on: the errors are the raising calls, every
\* path is processed, and the result sums to N.
C9_VanishedSourceIsOneFailure ==
    worker.state # "none" =>
       /\ \A k \in 1..Len(hist.calls) :
             ~hist.calls[k].present =>
                /\ ~hist.calls[k].ok
                /\ hist.calls[k].errorsAfter = hist.calls[k].errorsBefore + 1
                /\ hist.calls[k].successAfter = hist.calls[k].successBefore
                /\ hist.progress[k].msg =
                       [kind |-> "ERROR", path |-> ReplaceBackslash(worker.files[k])]
       /\ worker.errors = Len(RaisedPaths(hist.calls))
       /\ worker.state = "done" =>
             /\ Len(hist.calls) = Len(worker.files)
             /\ worker.success + worker.errors = Len(worker.files)

\* A batch of two files has ended; another program deleted one of them from
\* the origin after the analysis, that one failed and the other was copied.
C9_Witness ==
    /\ worker.state = "done"
    /\ hist.changed
    /\ worker.errors = 1
    /\ worker.success = 1
    /\ \E k \in 1..Len(hist.calls) : ~hist.calls[k].present

\* s <= t in Python's string order.
StrLeq(s, t) == s = t \/ StrLess(s, t)

\* C10: a batch processes its paths in lexicographic order of their canonical
\* (forward-slash) form, whatever separators the input uses; the recorded
\* failures follow the same order.
C10_CanonicalOrder ==
    /\ last.op = "copy_missing_files" =>
          /\ \A j, k \in 1..Len(last.calls) :
                j < k => StrLeq(last.calls[j].path, last.calls[k].path)
          /\ \A j, k \in 1..Len(last.errors) :
                j < k => StrLeq(last.errors[j], last.errors[k])
    /\ worker.state # "none" =>
          \A j, k \in 1..Len(hist.calls) :
             j < k => StrLeq(hist.calls[j].path, hist.calls[k].path)

\* In the application the order is the canonical one: analyze sorts the
\* normalized paths and the worker keeps that order.
C10_WorkerOrder ==
    worker.state # "none" =>
       \A j, k \in 1..Len(hist.calls) :
          j < k => StrLess(hist.calls[j].path, hist.calls[k].path)

\* C11: no batch overwrites a file that was in its copy target before the
\* batch started.  The worker writes each listed path once and nothing else
\* adds files while it runs, so the claim is that no pass of its loop changes
\* or removes a file that exists in the copy target.  Copying into the origin
\* itself is left aside here (C2).
C11_NoOverwriteInTarget ==
    [][ (/\ worker.state = "running"
         /\ worker'.i = worker.i + 1
         /\ worker.dest # worker.origin) =>
           \A k \in DOMAIN fs[worker.dest] :
              /\ k \in DOMAIN fs'[worker.dest]
              /\ fs'[worker.dest][k] = fs[worker.dest][k] ]_vars

\* A direct call copy_file(src, dst, ...) of an existing source onto a path
\* with no file yet, in another tree, has raised in w.write / in the content
\* copy of shutil.copy2: after the destination was opened for writing.
CopyFailedAfterOpen ==
    /\ last.op = "copy_file"
    /\ ~last.ok
    /\ last.fault = "write"
    /\ last.before # <<-1>>
    /\ last.dst_before = <<-1>>
    /\ last.src.root # last.dst.root

\* C12: a partially written destination is never taken for a complete file.
\* A copy that fails after the destination was opened for writing raises, a
\* batch records such a path as a failure, and comparing the source tree with
\* the destination tree afterwards still gives the path as missing.
C12_PartialWriteStaysMissing ==
    /\ CopyFailedAfterOpen =>
          normalize_rel(last.src.rel) \in compare(fs[last.src.root], fs[last.dst.root])
    /\ last.op = "copy_missing_files" =>
          \A k \in 1..Len(last.calls) :
             (/\ last.faultOf[last.calls[k].input] = "write"
              /\ ~last.calls[k].ok)
             => \E j \in 1..Len(last.errors) : last.errors[j] = last.calls[k].path

\* A direct call copy_file(src, dst, ...) in which nothing but the creation
\* of directories could go wrong: the source exists, no later step is refused,
\* and shutil.copy2 is not given one file twice.
CopyNeedsOnlyDirs ==
    /\ last.op = "copy_file"
    /\ last.before # <<-1>>
    /\ last.chunked \/ ~(/\ last.src.root = last.dst.root
                         /\ Resolve(last.src.rel) = Resolve(last.dst.rel))

\* C13: copy_file makes sure the whole chain of parent directories of the
\* destination exists before it writes.  Whatever number of them is absent,
\* the copy creates them all (and nothing else) and succeeds; when they are
\* all present the set of directories stays as it was and the step cannot
\* fail, os.makedirs not being called.
C13_ParentChainEnsured ==
    last.op = "copy_file" =>
       LET chain == Ancestors(Resolve(last.dst.rel))
           before == last.dirs_before
           after == dirs[last.dst.root]
       IN /\ (CopyNeedsOnlyDirs /\ last.fault = "none") =>
                /\ last.ok
                /\ chain \subseteq after
                /\ last.after # <<-1>>
          /\ (CopyNeedsOnlyDirs /\ last.fault = "mkdir" /\ chain \subseteq before) =>
                last.ok
          /\ chain \subseteq before => after = before
          /\ last.fault # "mkdir" => after = before \cup chain
          /\ before \subseteq after

\* A copy into a directory two levels down has succeeded where the deeper
\* of the two directories was absent, the upper one present.
C13_Witness ==
    /\ last.op = "copy_file"
    /\ last.ok
    /\ last.fault = "none"
    /\ Cardinality(Ancestors(Resolve(last.dst.rel))) = 2
    /\ Cardinality(Ancestors(Resolve(last.dst.rel)) \ last.dirs_before) = 1

\* The same where both directories were absent.
C13_WitnessWholeChain ==
    /\ last.op = "copy_file"
    /\ last.ok
    /\ last.fault = "none"
    /\ Cardinality(Ancestors(Resolve(last.dst.rel)) \ last.dirs_before) = 2

\* A batch is in progress: its thread runs, or signals it emitted (the
\* completion signal last) are still to be handled.
BatchInProgress == worker.state = "running" \/ queue # <<>>

\* A step that starts a CopyWorker.
StartsWorker == worker'.state = "running" /\ (worker.state # "running" \/ worker'.i < worker.i)

\* C14: at most one batch copy runs at any time.  From start_copy until
\* on_finished has run all controls are disabled, so no second CopyWorker is
\* started, no analysis runs and no folder or checkbox changes; once the
\* completion signal has been handled the controls are enabled again.
C14_OneBatchAtATime ==
    /\ [](BatchInProgress => ~ui.controls /\ ~ui.btn_copy)
    /\ [](~BatchInProgress => ui.controls)
    /\ [][ /\ StartsWorker => ~BatchInProgress
           /\ BatchInProgress =>
                 /\ ~StartsWorker
                 /\ last'.op # "analyze"
                 /\ UNCHANGED <<origin, dest_b, dest_c, use_dest_c>>
                 /\ missing_files' # missing_files => last'.op = "on_finished"
           /\ last'.op = "on_finished" => ~BatchInProgress' /\ ui'.controls ]_vars

\* The completion signal of a batch of two files has just been handled and
\* the controls are enabled again.
C14_Witness ==
    /\ last.op = "on_finished"
    /\ ui.controls
    /\ worker.state = "done"
    /\ Len(worker.files) = 2
    /\ queue = <<>>

\* C15: whenever the copy button is enabled, missing_files is non-empty and
\* no batch is in progress.  Handling the completion signal empties
\* missing_files and leaves the button disabled; the button becomes enabled
\* only by an analysis that finds missing files; and a worker is started only
\* with a list that no worker was started with before.
C15_CopyButtonMeansPendingList ==
    /\ [](ui.btn_copy => /\ missing_files # <<>>
                         /\ worker.state # "running"
                         /\ queue = <<>>
                         /\ ~hist.current)
    /\ [](last.op = "on_finished" => missing_files = <<>> /\ ~ui.btn_copy)
    /\ [][ /\ (ui'.btn_copy /\ ~ui.btn_copy) =>
                 (last'.op = "analyze" /\ last'.result # {})
           /\ StartsWorker =>
                 (ui.btn_copy /\ ~hist.current /\ worker'.files = missing_files) ]_vars

\* A batch has been run and handled, and a new analysis has found missing
\* files again: the copy button is enabled for the second time.
C15_Witness ==
    /\ ui.btn_copy
    /\ worker.state = "done"
    /\ last.op = "analyze"
    /\ missing_files # <<>>

\* C16: every batch reads its files from the origin directory its list of
\* missing paths was computed against by the most recent analysis.
C16_BatchReadsAnalysedOrigin ==
    worker.state = "running" => worker.origin = hist.aOrigin

\* The number of lines of the given kind in a list of log lines.
CountKind(lines, kind) == Len(SelectSeq(lines, LAMBDA m : m.kind = kind))

\* C17: when the completion signal of a batch over N files is handled, the
\* log buffer holds exactly N lines: the k-th is the outcome line of the k-th
\* file processed, so none is left from an earlier analysis or batch; its OK
\* and ERROR lines are as many as the reported successes and failures, and
\* these sum to the total of missing files written to the log.
C17_LogBufferAtCompletion ==
    last.op = "on_finished" =>
       LET N == Len(worker.files)
       IN /\ Len(last.lines) = N
          /\ \A k \in 1..Len(last.lines) :
                /\ last.lines[k] = hist.progress[k].msg
                /\ last.lines[k].path = hist.calls[k].path
                /\ (last.lines[k].kind = "OK") = hist.calls[k].ok
          /\ CountKind(last.lines, "OK") = last.success_count
          /\ CountKind(last.lines, "ERROR") = last.error_count
          /\ last.success_count + last.error_count = last.total
          /\ last.total = N

\* The completion signal of a batch with an OK line and an ERROR line has
\* been handled; it is not the first batch: its log was not saved, and the
\* log of an earlier batch is in the folder it copied into.
C17_Witness ==
    /\ last.op = "on_finished"
    /\ Len(last.lines) = 2
    /\ last.success_count = 1
    /\ last.error_count = 1
    /\ ~last.saved
    /\ K_log \in DOMAIN fs[worker.dest]

====
